---- MODULE Spec2Model ----
(***************************************************************************)
(* Model of zhuancun.py: the AliPCS client (make_request with its adaptive *)
(* request_interval) and the recursive save_shared_folder, run by main.    *)
(*                                                                         *)
(* Time is counted in tenths of a second: request_interval = 10 is the     *)
(* source's 1 second, and the success step of 0.1 s is 1.                  *)
(* One step of the model is one HTTP attempt of make_request together with *)
(* all the client code that runs until the next HTTP attempt is due.       *)
(***************************************************************************)
EXTENDS Integers, Sequences, FiniteSets, Bags, TLC

\* ---------------------------------------------------------------- constants
InitialInterval == 10
IntervalFloor == 10
SuccessStep == 1
PollSleep == 10
batch_size == 500
limit == 20
DefaultRetries == 2
BulkRetries == 1
\* request_interval is unbounded in the source; a rate-limit response is
\* enumerated only while the doubled interval stays within MaxInterval.
MaxInterval == 40

Max(a, b) == IF a >= b THEN a ELSE b
Min(a, b) == IF a <= b THEN a ELSE b

\* ------------------------------------------------------------ the share
\* Source nodes are integers, 0 is the share's root folder, and a node's
\* name is its number.  The server lists children by name, descending.
Desc(lo, hi) == [k \in 1..(hi - lo + 1) |-> hi + 1 - k]

BigFiles == batch_size + 1

\* folders: the folder nodes; children: each folder's listing in server
\* order; page: the number of items the server puts in one listing page.
\* The first share is two files and a folder holding one file; the second
\* has more files in its root than one batch takes; the third is two empty
\* sibling folders.
Shares ==
  << [folders  |-> {0, 3},
      children |-> (0 :> Desc(1, 3) @@ 3 :> Desc(4, 4)),
      page     |-> 2],
     [folders  |-> {0, BigFiles + 1},
      children |-> (0 :> Desc(1, BigFiles + 1)
                    @@ (BigFiles + 1) :> Desc(BigFiles + 2, BigFiles + 2)),
      page     |-> limit],
     [folders  |-> {0, 1, 2},
      children |-> (0 :> Desc(1, 2) @@ 1 :> << >> @@ 2 :> << >>),
      page     |-> limit] >>

\* the shares a specification starts from
ExampleShare == {1}
SpecShares == {1, 2}
SiblingShares == {1, 3}

VARIABLES
  share,             \* index in Shares of the share being transferred
  request_interval,  \* AliPCS.request_interval, in tenths of a second
  pc,                \* position of main
  stack,             \* activations of save_shared_folder, innermost last
  attempt,           \* make_request: the loop variable of the running call
  response,          \* make_request: what its local `response` is bound to
  drive,             \* destination drive: the mutations the server committed
  tasks,             \* server-side async copy tasks, by source folder
  issued,            \* <<operation, source folder>> pairs requested so far
  slept,             \* the sleeps performed by the last step, in order
  last,              \* the last HTTP attempt and how the client took it
  outcome,           \* how main ended: "running", "success" or "error"
  all_ok             \* history: no remote operation has failed so far

vars == << share, request_interval, pc, stack, attempt, response, drive,
           tasks, issued, slept, last, outcome, all_ok >>

Folders == Shares[share].folders
Children(f) == Shares[share].children[f]
IsFolder(n) == n \in Folders

RECURSIVE SubtreeOf(_, _)
SubtreeOf(s, n) ==
  IF n \in Shares[s].folders
  THEN {n} \cup UNION { SubtreeOf(s, Shares[s].children[n][k]) :
                          k \in DOMAIN Shares[s].children[n] }
  ELSE {n}

Subtree(n) == SubtreeOf(share, n)

SourceNodes == Subtree(0)

Range(s) == { s[k] : k \in DOMAIN s }


\* ------------------------------------------------------ destination drive
\* The drive is the bag of the mutations the server committed.  A folder
\* the client made is named <<n, c>>: the c-th folder made for source node
\* n; the folder main makes stands for no source node and has n = -1.
DriveRoot == << -2, 0 >>

Mkdir(n, parent) ==
  [kind |-> "mkdir", src |-> n, parent |-> parent, copied |-> {n}]

\* /file/copy of a folder: the server copies the whole subtree
BulkCopy(f, parent) ==
  [kind |-> "bulk", src |-> f, parent |-> parent, copied |-> Subtree(f)]

\* /file/copy of a batch of files: the items the server answered 201 for
FileCopies(f, parent, files) ==
  [kind |-> "batch", src |-> f, parent |-> parent, copied |-> files]

Commit(d, e) == d (+) SetToBag({e})

\* the number of destination nodes made for source node n
Copies(n) ==
  LET es == { e \in BagToSet(drive) : n \in e.copied } IN
  BagCardinality([e \in es |-> drive[e]])

\* the name of the folder that the next create_folder for n makes
NewFolderId(n) ==
  LET es == { e \in BagToSet(drive) : e.kind = "mkdir" /\ e.src = n } IN
  << n, BagCardinality([e \in es |-> drive[e]]) + 1 >>

NoTask == [state |-> "none", dst |-> DriveRoot]

\* ----------------------------------------------------------- make_request
\* every call with the default of make_request
MaxRetries_AllDefault(op) == DefaultRetries

MaxRetries(op) ==
  CASE op = "get_share_info"    -> DefaultRetries
    [] op = "list_files"        -> DefaultRetries
    [] op = "create_folder"     -> DefaultRetries
    [] op = "copy_file"         -> DefaultRetries
    [] op = "batch_copy_files"  -> BulkRetries
    [] op = "batch_copy_folder" -> BulkRetries
    [] op = "check_async_task"  -> BulkRetries

\* One HTTP attempt ends in one of:
\*   "ok"      a 2xx response with a JSON body
\*   "r429"    a 429 response (raise_for_status raises)
\*   "httperr" another 4xx/5xx response (raise_for_status raises)
\*   "neterr"  requests.request raises: `response` is not assigned
Statuses == {"ok", "r429", "httperr", "neterr"}

\* What `response.status_code == 429` reads in the except clause: after a
\* network error `response` is still what an earlier attempt of this call
\* bound it to, or unbound.
Seen(status) ==
  IF status = "neterr" THEN response
  ELSE IF status = "r429" THEN "429" ELSE "err"

\* without the floor of max(1, ...)
SuccessInterval_NoFloor(i) == i - SuccessStep

SuccessInterval(i) == Max(IntervalFloor, i - SuccessStep)

\* a fixed increment instead of the doubling
RateLimitInterval_Additive(i) == i + InitialInterval

RateLimitInterval(i) == i * 2

\* attempt == max_retries - 1
LastAttempt(a, max_retries) == a = max_retries - 1

\* range(max_retries + 1): one attempt too many
MoreAttempts_OffByOne(a, max_retries) == a + 1 < max_retries + 1

\* range(max_retries) has a next value after a
MoreAttempts(a, max_retries) == a + 1 < max_retries

\* One iteration of make_request's loop.  ctl is what follows it:
\*   "return" the JSON body is returned, "retry" the loop goes on,
\*   "raise" an exception leaves make_request, "none" the loop is over
\*   and make_request returns None.
make_request(status, max_retries) ==
  IF status = "ok"
  THEN [ctl |-> "return", interval |-> SuccessInterval(request_interval),
        slept |-> << >>]
  ELSE IF Seen(status) = "unbound"
  THEN [ctl |-> "raise", interval |-> request_interval, slept |-> << >>]
  ELSE IF Seen(status) = "429"
  THEN [ctl |-> IF MoreAttempts(attempt, max_retries) THEN "retry" ELSE "none",
        interval |-> RateLimitInterval(request_interval),
        slept |-> << RateLimitInterval(request_interval) >>]
  ELSE [ctl |-> IF LastAttempt(attempt, max_retries) THEN "raise"
                ELSE IF MoreAttempts(attempt, max_retries) THEN "retry"
                ELSE "none",
        interval |-> request_interval, slept |-> << >>]

\* The attempts enumerated: a rate limit only while the doubled interval
\* stays within MaxInterval.
Possible(status) ==
  Seen(status) = "429" => RateLimitInterval(request_interval) <= MaxInterval

NoFiles == [done |-> FALSE, nfiles |-> 0, ncalls |-> 0, maxbatch |-> 0,
            logged |-> << >>, failed |-> FALSE]

\* An attempt on which the remote operation did what was asked of it: a
\* 2xx answer that is not a refusal; for the bulk copy an accepted task,
\* which the server ends Succeed or Failed.
Smooth(status, body) ==
  /\ status = "ok"
  /\ body \in {"share_info", "created", "accepted", "Running", "Succeed",
               "Failed", "page", "responses"}

\* the bookkeeping every attempt does: the loop state of make_request, the
\* interval, and the record of the attempt
Attempted(op, src, dst, status, body, r, max_retries, files) ==
  /\ request_interval' = r.interval
  /\ attempt' = IF r.ctl = "retry" THEN attempt + 1 ELSE 0
  /\ response' = IF r.ctl = "retry" THEN Seen(status) ELSE "unbound"
  /\ last' = [op |-> op, src |-> src, dst |-> dst, status |-> status,
              seen |-> Seen(status), body |-> body, ctl |-> r.ctl,
              n |-> attempt + 1, max |-> max_retries,
              before |-> request_interval, files |-> files]
  /\ all_ok' = (all_ok /\ Smooth(status, body))


\* ------------------------------------------------------ save_shared_folder
\* An activation of save_shared_folder.  at is the remote call it is about
\* to make: "bulk" batch_copy_folder, "poll" check_async_task, "list"
\* list_files, "files" batch_copy_files, "folders" create_folder.
\* polls is the parity of the number of passes through the polling loop
\* while the loop runs, which tells one pass from the next.
\* bulk is how the bulk attempt was answered: the body of a 2xx answer, or
\* "none" / "raise" for what make_request did instead of returning one.
NewFrame(src, dst) ==
  [src |-> src, dst |-> dst, at |-> "bulk", bulk |-> "pending",
   all_files |-> << >>, next_marker |-> 0,
   file_list |-> << >>, folder_list |-> << >>,
   i |-> 0, j |-> 0, nbulk |-> 0, ncalls |-> 0, maxbatch |-> 0,
   logged |-> << >>, polls |-> 0]

Top == stack[Len(stack)]
Pop(stk) == SubSeq(stk, 1, Len(stk) - 1)
SetTop(stk, f) == [stk EXCEPT ![Len(stk)] = f]

RECURSIVE Resume(_, _, _)
RECURSIVE NextFolder(_, _)

\* The end of one iteration of the folder loop in the activation on top of
\* stk: the pause of request_interval, then the next folder, or return True
\* when there is none.
NextFolder(stk, itv) ==
  LET f == stk[Len(stk)] IN
  IF f.j < Len(f.folder_list)
  THEN [stack |-> SetTop(stk, [f EXCEPT !.at = "folders", !.j = f.j + 1]),
        slept |-> << itv >>, outcome |-> "running"]
  ELSE LET up == Resume(Pop(stk), "return", itv) IN
       [up EXCEPT !.slept = << itv >> \o up.slept]

\* without the except clause of line 271: an exception of the recursive
\* call leaves the caller as well
RECURSIVE Resume_Propagates(_, _, _)
Resume_Propagates(stk, how, itv) ==
  IF stk = << >>
  THEN [stack |-> << >>, slept |-> << >>,
        outcome |-> IF how = "raise" THEN "error" ELSE "success"]
  ELSE IF how = "raise" THEN Resume_Propagates(Pop(stk), "raise", itv)
  ELSE NextFolder(stk, itv)

\* Where control goes when an activation of save_shared_folder is over, stk
\* being the activations left.  The recursive call sits in the try block of
\* its caller's folder loop, which goes on whether the call returned or
\* raised; main logs success after a return and the error after a raise.
Resume(stk, how, itv) ==
  IF stk = << >>
  THEN [stack |-> << >>, slept |-> << >>,
        outcome |-> IF how = "raise" THEN "error" ELSE "success"]
  ELSE NextFolder(stk, itv)

\* The folder loop is entered: return True at once when folder_list is
\* empty, else create the first folder.
EnterFolders(stk, itv) ==
  LET f == stk[Len(stk)] IN
  IF f.folder_list = << >>
  THEN Resume(Pop(stk), "return", itv)
  ELSE [stack |-> SetTop(stk, [f EXCEPT !.at = "folders", !.j = 1]),
        slept |-> << >>, outcome |-> "running"]

\* The code after list_files returned files: the empty check, the split in
\* files and folders, and the entry of the file step or the folder loop.
AfterListing(stk, files, itv) ==
  LET f == stk[Len(stk)]
      g == [f EXCEPT !.all_files = << >>, !.next_marker = 0,
                     !.folder_list = SelectSeq(files, IsFolder),
                     !.file_list = SelectSeq(files, LAMBDA n : ~IsFolder(n))]
  IN
  IF files = << >>
  THEN Resume(Pop(stk), "return", itv)
  ELSE IF g.file_list # << >>
  THEN [stack |-> SetTop(stk, [g EXCEPT !.at = "files", !.i = 0]),
        slept |-> << >>, outcome |-> "running"]
  ELSE EnterFolders(SetTop(stk, g), itv)

\* what the continuation of a step leaves: the stack, the sleeps, main's end
Landed(c, before) ==
  /\ stack' = c.stack
  /\ slept' = before \o c.slept
  /\ outcome' = c.outcome
  /\ pc' = IF c.outcome = "running" THEN "save_shared_folder" ELSE "done"

\* the step was a retry inside make_request: the caller has not moved
Retrying(r) ==
  /\ slept' = r.slept
  /\ UNCHANGED << pc, stack, outcome, drive, tasks >>


\* ------------------------------------------------- values of the responses
\* None, and the JSON object of /adrive/v4/batch: {"responses": [...]}
None == [t |-> "None", keys |-> << >>, responses |-> << >>]

BatchResponse(batch, bad) ==
  [t |-> "dict", keys |-> << "responses" >>,
   responses |-> [k \in DOMAIN batch |->
                    [t |-> "dict", file_id |-> batch[k],
                     status |-> IF batch[k] \in bad THEN 403 ELSE 201]]]

\* `for result in results`: a dict yields its keys, which are strings;
\* None is not iterable (TypeError)
ForIn(v) ==
  IF v.t = "dict"
  THEN [raised |-> FALSE,
        elems |-> [k \in DOMAIN v.keys |->
                     [t |-> "str", file_id |-> 0, status |-> 0]]]
  ELSE [raised |-> TRUE, elems |-> << >>]

\* The body of the loop over results: result['status'] raises TypeError on
\* a string; else the item is logged as copied (201) or as failed.
RECURSIVE LogLoop(_, _, _)
LogLoop(elems, k, acc) ==
  IF k > Len(elems) THEN [raised |-> FALSE, logged |-> acc]
  ELSE IF elems[k].t = "str" THEN [raised |-> TRUE, logged |-> acc]
  ELSE LogLoop(elems, k + 1,
               Append(acc, [file_id |-> elems[k].file_id,
                            ok |-> elems[k].status = 201]))

LogResults(v) ==
  IF ForIn(v).raised THEN [raised |-> TRUE, logged |-> << >>]
  ELSE LogLoop(ForIn(v).elems, 1, << >>)

\* the per-item failures of a batch that are enumerated: none, or the first
FailChoices(batch) == { {}, {batch[1]} }

\* all_files.extend(response.get('items', []))
Extend_Overwrites(all_files, items) == items

Extend(all_files, items) == all_files \o items

\* the server's listing page that starts after `marker` items
Page(f, marker) ==
  LET all == Children(f)
      size == Shares[share].page IN
  [items |-> SubSeq(all, marker + 1, Min(marker + size, Len(all))),
   next_marker |-> IF marker + size < Len(all) THEN marker + size ELSE 0]

\* ------------------------------------------------------------------- Init
NoAttempt ==
  [op |-> "none", src |-> -1, dst |-> DriveRoot, status |-> "none",
   seen |-> "none", body |-> "none", ctl |-> "none", n |-> 0, max |-> 0,
   before |-> InitialInterval, files |-> NoFiles]

InitOn(shares) ==
  /\ share \in shares
  /\ request_interval = InitialInterval
  /\ pc = "get_share_info"
  /\ stack = << >>
  /\ attempt = 0
  /\ response = "unbound"
  /\ drive = EmptyBag
  /\ tasks = [f \in Shares[share].folders |-> NoTask]
  /\ issued = {}
  /\ slept = << >>
  /\ last = NoAttempt
  /\ outcome = "running"
  /\ all_ok = TRUE

Init == InitOn(SpecShares)
InitSiblings == InitOn(SiblingShares)
InitExample == InitOn(ExampleShare)

\* ------------------------------------------------------------------- main
\* main going on with a None in share_info
HasShareInfo_NoneAccepted(ctl) == ctl \in {"return", "none"}

\* main, lines 296-304: share_info is subscripted, which raises on None
HasShareInfo(ctl) == ctl = "return"

\* main, line 296: get_share_info; a None or a raise ends main in its
\* except clause
GetShareInfo ==
  /\ pc = "get_share_info"
  /\ \E status \in Statuses :
       /\ Possible(status)
       /\ LET max_retries == MaxRetries("get_share_info")
              r == make_request(status, max_retries) IN
          /\ Attempted("get_share_info", -1, DriveRoot, status,
                       IF status = "ok" THEN "share_info" ELSE "none",
                       r, max_retries, NoFiles)
          /\ issued' = issued \cup { << "get_share_info", -1 >> }
          /\ IF r.ctl = "retry" THEN Retrying(r)
             ELSE /\ slept' = r.slept
                  /\ pc' = IF HasShareInfo(r.ctl) THEN "create_folder"
                           ELSE "done"
                  /\ outcome' = IF HasShareInfo(r.ctl) THEN "running"
                                ELSE "error"
                  /\ UNCHANGED << stack, drive, tasks >>
  /\ UNCHANGED share

\* main, lines 305-310: the destination folder is created under "root" and
\* save_shared_folder is called on the share's root folder
CreateTargetFolder ==
  /\ pc = "create_folder"
  /\ \E status \in Statuses :
       /\ Possible(status)
       /\ LET max_retries == MaxRetries("create_folder")
              r == make_request(status, max_retries) IN
          /\ Attempted("create_folder", -1, DriveRoot, status,
                       IF status = "ok" THEN "created" ELSE "none",
                       r, max_retries, NoFiles)
          /\ issued' = issued \cup { << "create_folder", -1 >> }
          /\ IF r.ctl = "retry" THEN Retrying(r)
             ELSE /\ slept' = r.slept
                  /\ UNCHANGED tasks
                  /\ IF r.ctl = "return"
                     THEN /\ drive' = Commit(drive, Mkdir(-1, DriveRoot))
                          /\ stack' = << NewFrame(0, NewFolderId(-1)) >>
                          /\ pc' = "save_shared_folder"
                          /\ outcome' = "running"
                     ELSE /\ pc' = "done"
                          /\ outcome' = "error"
                          /\ UNCHANGED << stack, drive >>
  /\ UNCHANGED share


\* ------------------------------------------- save_shared_folder, the steps
\* The bodies a 2xx answer to the bulk copy can carry:
\*   "accepted"  responses[0].status = 202 with an async_task_id
\*   "immediate" responses[0].status = 201, the copy is done
\*   "rejected"  responses[0] with a failure status, nothing copied
\*   "code"      an error object with code and message, nothing copied
BulkBodies == {"accepted", "immediate", "rejected", "code"}

\* lines 198-229, the bulk attempt
BulkGoesOn(ctl, body) == ctl = "return" /\ body = "accepted"

BatchCopyFolder ==
  /\ pc = "save_shared_folder"
  /\ Top.at = "bulk"
  /\ \E status \in Statuses, body \in BulkBodies \cup {"none"} :
       /\ Possible(status)
       /\ (status = "ok") = (body \in BulkBodies)
       /\ LET f == Top
              max_retries == MaxRetries("batch_copy_folder")
              r == make_request(status, max_retries)
              g == [f EXCEPT !.nbulk = f.nbulk + 1] IN
          /\ Attempted("batch_copy_folder", f.src, f.dst, status, body,
                       r, max_retries, NoFiles)
          /\ issued' = issued \cup { << "batch_copy_folder", f.src >> }
          /\ slept' = r.slept
          /\ UNCHANGED << pc, outcome >>
          /\ IF r.ctl = "retry"
             THEN /\ stack' = SetTop(stack, g)
                  /\ UNCHANGED << drive, tasks >>
             ELSE /\ stack' = SetTop(stack,
                        [g EXCEPT !.at = IF BulkGoesOn(r.ctl, body)
                                         THEN "poll" ELSE "list",
                                  !.bulk = IF r.ctl = "return" THEN body
                                           ELSE r.ctl])
                  /\ tasks' = IF r.ctl = "return" /\ body = "accepted"
                              THEN [tasks EXCEPT ![f.src] =
                                      [state |-> "Running", dst |-> f.dst]]
                              ELSE tasks
                  /\ drive' = IF r.ctl = "return" /\ body = "immediate"
                              THEN Commit(drive, BulkCopy(f.src, f.dst))
                              ELSE drive
  /\ UNCHANGED share

\* The server ends a running copy task; a task that succeeds has copied the
\* subtree, one that fails or is cancelled is taken to have copied nothing.
TaskFinish ==
  /\ \E f \in Folders, st \in {"Succeed", "Failed", "Cancelled"} :
       /\ tasks[f].state = "Running"
       /\ tasks' = [tasks EXCEPT ![f].state = st]
       /\ drive' = IF st = "Succeed"
                   THEN Commit(drive, BulkCopy(f, tasks[f].dst))
                   ELSE drive
  /\ UNCHANGED << share, request_interval, pc, stack, attempt, response,
                  issued, slept, last, outcome, all_ok >>

\* What the polling loop does with a poll, lines 210-220: "return" (line
\* 216), "manual" (the break of line 219, or an exception caught at line
\* 228) or "again" (sleep 1 and poll again).
\* line 217 testing for 'Failed' alone
PollVerdict_CancelledIgnored(ctl, body) ==
  IF ctl # "return" THEN "manual"
  ELSE IF body = "Succeed" THEN "return"
  ELSE IF body = "Failed" THEN "manual"
  ELSE "again"

PollVerdict(ctl, body) ==
  IF ctl # "return" THEN "manual"
  ELSE IF body = "Succeed" THEN "return"
  ELSE IF body \in {"Failed", "Cancelled"} THEN "manual"
  ELSE "again"

\* lines 208-220, one poll of the task.  A 2xx answer carries the task's
\* state, or no 'responses' at all.
CheckAsyncTask ==
  /\ pc = "save_shared_folder"
  /\ Top.at = "poll"
  /\ \E status \in Statuses, shape \in {"state", "noresponses", "none"} :
       /\ Possible(status)
       /\ (status = "ok") = (shape # "none")
       /\ LET f == Top
              body == IF shape = "state" THEN tasks[f.src].state ELSE shape
              max_retries == MaxRetries("check_async_task")
              r == make_request(status, max_retries)
              verdict == PollVerdict(r.ctl, body) IN
          /\ Attempted("check_async_task", f.src, f.dst, status, body,
                       r, max_retries, NoFiles)
          /\ issued' = issued \cup { << "check_async_task", f.src >> }
          /\ UNCHANGED << drive, tasks >>
          /\ IF r.ctl = "retry" THEN Retrying(r)
             ELSE IF verdict = "return"
             THEN Landed(Resume(Pop(stack), "return", r.interval), r.slept)
             ELSE IF verdict = "manual"
             THEN /\ stack' = SetTop(stack,
                        [f EXCEPT !.at = "list", !.polls = 0])
                  /\ slept' = r.slept
                  /\ UNCHANGED << pc, outcome >>
             ELSE /\ slept' = r.slept \o << PollSleep >>
                  /\ stack' = SetTop(stack, [f EXCEPT !.polls = 1 - f.polls])
                  /\ UNCHANGED << pc, outcome >>
  /\ UNCHANGED share

\* lines 233-246 with list_files (62-80): one page request; after the last
\* page the listing is split.  A None or a raise of make_request leaves
\* list_files and save_shared_folder as an exception.
ListFiles ==
  /\ pc = "save_shared_folder"
  /\ Top.at = "list"
  /\ \E status \in Statuses :
       /\ Possible(status)
       /\ LET f == Top
              max_retries == MaxRetries("list_files")
              r == make_request(status, max_retries)
              page == Page(f.src, f.next_marker)
              all == Extend(f.all_files, page.items) IN
          /\ Attempted("list_files", f.src, f.dst, status,
                       IF status = "ok" THEN "page" ELSE "none",
                       r, max_retries, NoFiles)
          /\ issued' = issued \cup { << "list_files", f.src >> }
          /\ UNCHANGED << drive, tasks >>
          /\ IF r.ctl = "retry" THEN Retrying(r)
             ELSE IF r.ctl # "return"
             THEN Landed(Resume(Pop(stack), "raise", r.interval), r.slept)
             ELSE IF page.next_marker # 0
             THEN /\ stack' = SetTop(stack,
                        [f EXCEPT !.all_files = all,
                                  !.next_marker = page.next_marker])
                  /\ slept' = r.slept
                  /\ UNCHANGED << pc, outcome >>
             ELSE Landed(AfterListing(stack, all, r.interval), r.slept)
  /\ UNCHANGED share


\* lines 249-263, one batch of the file step: batch_copy_files on
\* file_list[i:i+batch_size], the loop over its results, the pause; any
\* exception ends the file step in the except clause of line 262.
BatchCopyFiles ==
  /\ pc = "save_shared_folder"
  /\ Top.at = "files"
  /\ \E status \in Statuses :
     \E bad \in FailChoices(SubSeq(Top.file_list, Top.i + 1, Top.i + 1)) :
       /\ Possible(status)
       /\ status # "ok" => bad = {}
       /\ LET f == Top
              batch == SubSeq(f.file_list, f.i + 1,
                              Min(f.i + batch_size, Len(f.file_list)))
              max_retries == MaxRetries("batch_copy_files")
              r == make_request(status, max_retries)
              results == IF r.ctl = "return" THEN BatchResponse(batch, bad)
                         ELSE None
              run == IF r.ctl = "raise"
                     THEN [raised |-> TRUE, logged |-> << >>]
                     ELSE LogResults(results)
              g == [f EXCEPT !.ncalls = f.ncalls + 1,
                             !.maxbatch = Max(f.maxbatch, Len(batch)),
                             !.logged = IF r.ctl = "retry" THEN f.logged
                                        ELSE f.logged \o run.logged]
              more == ~run.raised /\ f.i + batch_size < Len(f.file_list)
              pause == IF run.raised THEN << >> ELSE << r.interval >>
              summary == [done |-> ~more, nfiles |-> Len(f.file_list),
                          ncalls |-> g.ncalls, maxbatch |-> g.maxbatch,
                          logged |-> g.logged, failed |-> run.raised] IN
          /\ issued' = issued \cup { << "batch_copy_files", f.src >> }
          /\ UNCHANGED tasks
          /\ drive' = IF status = "ok"
                      THEN Commit(drive, FileCopies(f.src, f.dst,
                                                    Range(batch) \ bad))
                      ELSE drive
          /\ IF r.ctl = "retry"
             THEN /\ Attempted("batch_copy_files", f.src, f.dst, status,
                               "none", r, max_retries, NoFiles)
                  /\ stack' = SetTop(stack, g)
                  /\ slept' = r.slept
                  /\ UNCHANGED << pc, outcome >>
             ELSE /\ Attempted("batch_copy_files", f.src, f.dst, status,
                               IF status # "ok" THEN "none"
                               ELSE IF bad = {} THEN "responses"
                               ELSE "partial",
                               r, max_retries, summary)
                  /\ IF more
                     THEN /\ stack' = SetTop(stack,
                                [g EXCEPT !.i = f.i + batch_size])
                          /\ slept' = r.slept \o pause
                          /\ UNCHANGED << pc, outcome >>
                     ELSE Landed(EnterFolders(SetTop(stack, g), r.interval),
                                 r.slept \o pause)
  /\ UNCHANGED share

\* calling save_shared_folder whatever create_folder did
Recurses_Always(ctl) == TRUE

\* lines 268-270: the recursive call is reached when create_folder returned
\* a folder; None makes new_folder['file_id'] raise
Recurses(ctl) == ctl = "return"

\* lines 266-273, one folder of folder_list: create_folder, then the
\* recursive call on the new folder; a None (new_folder['file_id'] raises)
\* or a raise is caught at line 271 and the loop goes on.
CreateFolder ==
  /\ pc = "save_shared_folder"
  /\ Top.at = "folders"
  /\ \E status \in Statuses :
       /\ Possible(status)
       /\ LET f == Top
              folder == f.folder_list[f.j]
              max_retries == MaxRetries("create_folder")
              r == make_request(status, max_retries) IN
          /\ Attempted("create_folder", folder, f.dst, status,
                       IF status = "ok" THEN "created" ELSE "none",
                       r, max_retries, NoFiles)
          /\ issued' = issued \cup { << "create_folder", folder >> }
          /\ UNCHANGED tasks
          /\ IF r.ctl = "retry" THEN Retrying(r)
             ELSE IF Recurses(r.ctl)
             THEN /\ drive' = IF status = "ok"
                              THEN Commit(drive, Mkdir(folder, f.dst))
                              ELSE drive
                  /\ stack' = Append(stack,
                        NewFrame(folder, NewFolderId(folder)))
                  /\ slept' = r.slept
                  /\ UNCHANGED << pc, outcome >>
             ELSE /\ Landed(NextFolder(stack, r.interval), r.slept)
                  /\ UNCHANGED drive
  /\ UNCHANGED share

\* ------------------------------------------------------------------- Next
Next ==
  \/ GetShareInfo
  \/ CreateTargetFolder
  \/ BatchCopyFolder
  \/ TaskFinish
  \/ CheckAsyncTask
  \/ ListFiles
  \/ BatchCopyFiles
  \/ CreateFolder

Spec == Init /\ [][Next]_vars

\* the steps of the client, which runs until main is over
Program ==
  \/ GetShareInfo
  \/ CreateTargetFolder
  \/ BatchCopyFolder
  \/ CheckAsyncTask
  \/ ListFiles
  \/ BatchCopyFiles
  \/ CreateFolder

\* The run on the example share when the client keeps running and the
\* server ends every task it accepted.  Listings are finite and
\* make_request makes at most max_retries attempts by construction.
FairSpec ==
  InitExample /\ [][Next]_vars /\ WF_vars(Program) /\ WF_vars(TaskFinish)

\* the same program on the example share alone
SpecExample == InitExample /\ [][Next]_vars

\* the same program on the shares with sibling folders and empty folders
SpecSiblings == InitSiblings /\ [][Next]_vars

TypeOK ==
  /\ share \in DOMAIN Shares
  /\ request_interval \in IntervalFloor..MaxInterval
  /\ pc \in {"get_share_info", "create_folder", "save_shared_folder", "done"}
  /\ attempt \in 0..(DefaultRetries - 1)
  /\ response \in {"unbound", "429", "err"}
  /\ outcome \in {"running", "success", "error"}
  /\ (pc = "save_shared_folder") = (stack # << >>)
  /\ (pc = "done") = (outcome # "running")
  /\ all_ok \in BOOLEAN


\* ----------------------------------------------------------------- claims
ManualSteps == {"list", "files", "folders"}
Terminal == {"Succeed", "Failed", "Cancelled"}

\* the remote operation the program is about to request
CurrentOp ==
  CASE pc = "get_share_info" -> "get_share_info"
    [] pc = "create_folder" -> "create_folder"
    [] pc = "done" -> "none"
    [] pc = "save_shared_folder" ->
         CASE Top.at = "bulk" -> "batch_copy_folder"
           [] Top.at = "poll" -> "check_async_task"
           [] Top.at = "list" -> "list_files"
           [] Top.at = "files" -> "batch_copy_files"
           [] Top.at = "folders" -> "create_folder"

\* C1: every source node of the share has at most one destination node,
\* whatever the bulk copy and the retries did.
C1_AtMostOneCopy == \A n \in SourceNodes : Copies(n) <= 1

\* C2: an activation is in manual replication (listing or copying the
\* children one level at a time) only if its bulk copy was unavailable or
\* failed; in particular not after an immediate successful bulk copy.
BulkUnavailableOrFailed(fr) ==
  \/ fr.bulk \in {"rejected", "code", "none", "raise"}
  \/ fr.bulk = "accepted" /\ tasks[fr.src].state \in {"Failed", "Cancelled"}

C2_ManualOnlyAfterBulkFailed ==
  \A k \in DOMAIN stack :
    stack[k].at \in ManualSteps => BulkUnavailableOrFailed(stack[k])

\* C3: after an accepted bulk copy the task is polled, one second apart,
\* until it is terminal: a poll that does not show a terminal state is
\* followed by a 1-second sleep and another poll, and manual replication
\* does not start while the task is not terminal, whatever a poll returns.
C3_PollsUntilTerminal ==
  /\ \A k \in DOMAIN stack :
       (stack[k].bulk = "accepted" /\ stack[k].at \in ManualSteps)
         => tasks[stack[k].src].state \in Terminal
  /\ (last.op = "check_async_task" /\ last.body \notin Terminal)
       => /\ pc = "save_shared_folder"
          /\ Top.src = last.src
          /\ Top.at = "poll"
          /\ slept # << >>
          /\ slept[Len(slept)] = PollSleep

\* C4: a poll that shows Succeed ends the activation with success and no
\* list, create-folder or copy request was made for that folder; a poll
\* that shows Failed or Cancelled ends the polling and starts the manual
\* replication of the same source folder into the same destination.
C4_TaskOutcome ==
  (last.op = "check_async_task" /\ last.ctl = "return") =>
    /\ last.body = "Succeed" =>
         /\ \A k \in DOMAIN stack : stack[k].src # last.src
         /\ (last.src = 0 => outcome = "success")
         /\ << "list_files", last.src >> \notin issued
         /\ << "batch_copy_files", last.src >> \notin issued
         /\ \A k \in DOMAIN Children(last.src) :
              << "create_folder", Children(last.src)[k] >> \notin issued
    /\ last.body \in {"Failed", "Cancelled"} =>
         /\ pc = "save_shared_folder"
         /\ Top.src = last.src
         /\ Top.dst = last.dst
         /\ Top.at = "list"
         /\ Top.next_marker = 0
         /\ Top.all_files = << >>

\* both cases in one run: the root's task failed, manual replication went
\* on, and the task of the folder below has just been polled as Succeed
C4_Witness ==
  /\ last.op = "check_async_task"
  /\ last.body = "Succeed"
  /\ last.src # 0
  /\ tasks[0].state = "Failed"
  /\ << "list_files", 0 >> \in issued


Ceil(a, b) == (a + b - 1) \div b

IsFile(n) == ~IsFolder(n)

\* C5: the file step on more than batch_size files makes
\* ceil(K / batch_size) batch requests of at most batch_size items and
\* processes exactly K per-item results, in the order of the input.
C5_Chunked ==
  (last.files.done /\ last.files.nfiles > batch_size) =>
    /\ last.files.ncalls = Ceil(last.files.nfiles, batch_size)
    /\ last.files.maxbatch <= batch_size
    /\ Len(last.files.logged) = last.files.nfiles
    /\ \A k \in DOMAIN last.files.logged :
         last.files.logged[k].file_id
           = SelectSeq(Children(last.src), IsFile)[k]

\* C6: a batch whose HTTP request succeeded is not treated as a failed
\* batch: each of its per-item results is examined, and the file step goes
\* on with the remaining batches.
C6_PerItemResults ==
  (last.op = "batch_copy_files" /\ last.ctl = "return") =>
    /\ ~last.files.failed
    /\ Len(last.files.logged)
         = Min(last.files.nfiles, last.files.ncalls * batch_size)
    /\ last.files.done
         => last.files.ncalls = Ceil(last.files.nfiles, batch_size)

\* C7: make_request raises when its attempts are used up without a
\* successful response, whether the failures were 429 or not.
C7_ExhaustedRaises ==
  (last.op # "none" /\ last.status # "ok" /\ last.n = last.max)
    => last.ctl = "raise"

\* C8: across consecutive rate-limit responses followed by a success, each
\* rate-limit response exactly doubles request_interval, and the success
\* leaves it strictly smaller than before the success and at least 1 s.
C8_Backoff ==
  [][ /\ (last' # last /\ last'.status = "r429")
          => /\ request_interval' = 2 * request_interval
             /\ request_interval' > request_interval
      /\ (last.status = "r429" /\ last'.status = "ok")
          => /\ request_interval' < request_interval
             /\ request_interval' >= IntervalFloor ]_vars

\* two consecutive rate limits (10 -> 20 -> 40), then a success
C8_Witness ==
  /\ last.status = "ok"
  /\ last.before = 4 * InitialInterval
  /\ request_interval = 4 * InitialInterval - SuccessStep

C10_Interval ==
  /\ request_interval = 10
  /\ [](request_interval >= 10)
  /\ [][ /\ (last' # last /\ last'.status = "ok")
             => request_interval' = Max(10, request_interval - 1)
         /\ (last' # last /\ last'.status = "r429")
             => request_interval' = 2 * request_interval
         /\ request_interval' < request_interval => last'.status = "ok"
         /\ request_interval' # request_interval
             => \/ request_interval' = Max(10, request_interval - 1)
                \/ request_interval' = 2 * request_interval ]_vars

\* a success at the floor: max(1, 1 - 0.1) keeps the interval at 1 s
C10_Witness ==
  /\ last.status = "ok"
  /\ last.before = IntervalFloor
  /\ request_interval = IntervalFloor


\* C11: list_files returns the concatenation of all the server's pages in
\* server order, nothing twice and nothing left out: while it pages, it
\* holds the listing up to the marker it will send next, and the split in
\* files and folders is made from the complete listing.
C11_ListingComplete ==
  /\ \A k \in DOMAIN stack :
       LET f == stack[k] IN
       /\ f.at = "list"
            => f.all_files = SubSeq(Children(f.src), 1, f.next_marker)
       /\ f.at \in {"files", "folders"}
            => /\ f.file_list = SelectSeq(Children(f.src), IsFile)
               /\ f.folder_list = SelectSeq(Children(f.src), IsFolder)
  /\ (/\ last.op = "list_files"
      /\ last.ctl = "return"
      /\ \A k \in DOMAIN stack : stack[k].src # last.src)
       => Children(last.src) = << >>

\* a listing of more than two pages has been split
C11_Witness ==
  \E k \in DOMAIN stack :
    /\ stack[k].at = "files"
    /\ Len(Children(stack[k].src)) > 2 * Shares[share].page
    /\ Len(stack[k].file_list) + Len(stack[k].folder_list)
         = Len(Children(stack[k].src))


\* C12: when every remote operation succeeded (each bulk copy was accepted
\* as a task that ended Succeed or Failed, each other request was answered
\* 2xx in full) and the run is over, every file of the source tree has been
\* copied exactly once and every subfolder has been created exactly once.
C12_MirrorsSource ==
  (pc = "done" /\ outcome = "success" /\ all_ok)
    => \A n \in SourceNodes \ {0} : Copies(n) = 1


\* the folder children of f, in listing order
FolderChildren(f) == SelectSeq(Children(f), IsFolder)

\* the manual replication of f got past the listing: it requested a file
\* batch or the creation of a child folder
EnteredLoops(f) ==
  \/ << "batch_copy_files", f >> \in issued
  \/ \E c \in Range(FolderChildren(f)) : << "create_folder", c >> \in issued

\* C13: create_folder is attempted for every folder child of a listing,
\* whatever failed in the file batches of the parent or in the siblings
\* before it: a folder loop in progress has attempted every child before
\* the current one, and once the activation is over every folder child
\* has been attempted.
C13_SiblingsAttempted ==
  /\ \A k \in DOMAIN stack :
       stack[k].at = "folders"
         => \A i \in 1..(stack[k].j - 1) :
              << "create_folder", stack[k].folder_list[i] >> \in issued
  /\ \A f \in Folders :
       (EnteredLoops(f) /\ \A k \in DOMAIN stack : stack[k].src # f)
         => \A c \in Range(FolderChildren(f)) :
              << "create_folder", c >> \in issued

\* the creation of the first sibling failed for good and the second
\* sibling's creation has been requested
C13_Witness ==
  /\ Len(FolderChildren(0)) = 2
  /\ << "create_folder", FolderChildren(0)[1] >> \in issued
  /\ Copies(FolderChildren(0)[1]) = 0
  /\ last.op = "create_folder"
  /\ last.src = FolderChildren(0)[2]


\* the last step ended an activation of save_shared_folder on an empty
\* source folder with return True: its listing came back empty, or the
\* poll of its bulk copy task said Succeed
ReturnedOnEmpty ==
  /\ last.src \in Folders
  /\ Children(last.src) = << >>
  /\ last.ctl = "return"
  /\ \/ last.op = "list_files"
     \/ last.op = "check_async_task" /\ last.body = "Succeed"

\* C14: when save_shared_folder has returned True on an empty source
\* folder, whatever the bulk attempt before the listing came to, nothing
\* has been created under its destination folder.
C14_EmptyFolderNoChildren ==
  ReturnedOnEmpty
    => /\ \A k \in DOMAIN stack : stack[k].src # last.src
       /\ \A e \in BagToSet(drive) : e.parent # last.dst


\* the requests made so far on the subtree of folder c, its own creation
\* aside
IssuedWithin(c) ==
  { q \in issued : q[2] \in Subtree(c) /\ q # << "create_folder", c >> }

\* the destination folders that create_folder made for source folder c
Made(c) == { e \in BagToSet(drive) : e.kind = "mkdir" /\ e.src = c }

\* C15: an activation of save_shared_folder below the first is on the
\* folder its caller's folder loop is at, was called after create_folder
\* made that folder under the caller's destination, and has the new
\* folder's id as its destination; nothing is requested on the subtree of
\* a child whose create_folder has not succeeded; and no child folder of a
\* folder is created while the folder's file batches are still to be
\* issued.
C15_RecursionAfterCreate ==
  /\ \A k \in DOMAIN stack :
       k > 1 =>
         LET up == stack[k - 1]  me == stack[k] IN
         /\ up.at = "folders"
         /\ me.src = up.folder_list[up.j]
         /\ \E e \in Made(me.src) : e.parent = up.dst
         /\ me.dst[1] = me.src
         /\ me.dst[2] + 1 = NewFolderId(me.src)[2]
  /\ \A c \in Folders \ {0} : IssuedWithin(c) # {} => Made(c) # {}
  /\ \A k \in DOMAIN stack :
       LET f == stack[k] IN
       /\ f.at \in {"bulk", "poll", "list", "files"}
            => \A c \in Range(FolderChildren(f.src)) :
                 << "create_folder", c >> \notin issued
       /\ (f.at = "folders" /\ f.file_list # << >>)
            => << "batch_copy_files", f.src >> \in issued

\* the recursive call on a created child folder is listing the child,
\* after the file batch of the parent
C15_Witness ==
  /\ Len(stack) = 2
  /\ stack[2].at = "list"
  /\ stack[1].file_list # << >>
  /\ Made(stack[2].src) # {}


\* C16: when every accepted task reaches a terminal state, every listing
\* ends and every make_request call ends, the run of save_shared_folder on
\* the share is eventually over.
C16_Terminates == <>(pc = "done")


\* C17: an activation of save_shared_folder sends the bulk copy request of
\* its folder at most once: once it is past the bulk attempt it has sent
\* exactly one, whatever the answer was, and the request is a single
\* attempt of make_request.
C17_BulkOnce ==
  /\ \A k \in DOMAIN stack :
       stack[k].nbulk = IF stack[k].at = "bulk" THEN 0 ELSE 1
  /\ last.op = "batch_copy_folder"
       => last.n = 1 /\ last.max = BulkRetries /\ last.ctl # "retry"

\* manual replication has started after a bulk request that failed, was
\* refused, or whose task failed
C17_Witness ==
  \E k \in DOMAIN stack :
    /\ stack[k].at \in ManualSteps
    /\ stack[k].nbulk = 1
    /\ \/ stack[k].bulk \in {"raise", "none", "rejected", "code"}
       \/ stack[k].bulk = "accepted"
            /\ tasks[stack[k].src].state \in {"Failed", "Cancelled"}


\* C18: an attempt that failed otherwise than by a rate-limit response (a
\* network error, or an error status other than 429) leaves
\* request_interval as it was, and when make_request goes on to another
\* attempt it does so without sleeping.
C18_OtherFailuresNoBackoff ==
  last.status \in {"httperr", "neterr"}
    => /\ request_interval = last.before
       /\ last.ctl = "retry" => slept = << >>


\* the requests made so far that change the destination drive
Mutating ==
  { q \in issued :
      q[1] \in {"create_folder", "batch_copy_folder", "batch_copy_files"} }

\* C19: when get_share_info has not succeeded main is over with an error
\* and no mutating request has been made; and save_shared_folder runs, or
\* any request on the share's folders has been made, only when the
\* destination root folder has been created.
C19_MainGuards ==
  /\ (last.op = "get_share_info" /\ last.ctl \in {"raise", "none"})
       => /\ pc = "done" /\ outcome = "error"
          /\ stack = << >>
          /\ Mutating = {}
          /\ drive = EmptyBag
  /\ (pc = "get_share_info") => (Mutating = {} /\ stack = << >>)
  /\ (stack # << >> \/ \E q \in issued : q[2] \in Folders)
       => BagIn(Mkdir(-1, DriveRoot), drive)
  /\ (last.op = "create_folder" /\ last.src = -1
        /\ last.ctl \in {"raise", "none"})
       => /\ pc = "done" /\ outcome = "error"
          /\ stack = << >>
          /\ \A q \in issued : q[2] \notin Folders

\* get_share_info was rate-limited on every attempt and returned None
C19_Witness ==
  /\ last.op = "get_share_info"
  /\ last.ctl = "none"
  /\ pc = "done"


\* C20: main reports overall success only when nothing failed to be
\* copied: every file and every folder below the share's root then has a
\* destination node.
C20_SuccessMeansCopied ==
  (pc = "done" /\ outcome = "success")
    => \A n \in SourceNodes \ {0} : Copies(n) >= 1

====
